---- MODULE Spec2Model ----
(***************************************************************************)
(* dfcache: the command line front end of the Dragonfly P2P cache.         *)
(*                                                                         *)
(* One behaviour of this module is one process invocation of               *)
(* dragonfly-client/src/bin/dfcache/main.rs: main parses the arguments,    *)
(* Command::execute dispatches to the handler of the selected variant, the *)
(* handler runs the health-checked bootstrap get_dfdaemon_download_client  *)
(* and then issues its RPCs, and the result travels back to main and to    *)
(* the exit status.  Every await of the program is one step of the model;  *)
(* the daemon behind the Unix socket is an environment that may start,     *)
(* become ready or go away between any two steps.                          *)
(***************************************************************************)
EXTENDS Integers, Sequences, FiniteSets, TLC

(***************************************************************************)
(* Bounds of the model.                                                    *)
(***************************************************************************)
\* Number of distinct socket paths an endpoint may name.
NumEndpoints == 2
\* Largest number of operation RPCs one handler issues ("one or more").
MaxRpcs == 2
\* Largest number of times the daemon changes state during one invocation.
MaxDaemonChanges == 2
\* Largest replica count an import may ask for.
MaxReplicas == 2

Endpoints == 1..NumEndpoints

\* The three variants of enum Command.
Commands == {"Import", "Export", "Stat"}

\* What is behind a socket path: nothing listening, a daemon that accepts
\* connections but whose download service is not serving yet, or a daemon
\* whose download service is serving.
DaemonStates == {"absent", "not_ready", "serving"}

(***************************************************************************)
(* Result<T> values.  An Ok carries no payload the model needs; an Err     *)
(* carries the kind of the error.                                          *)
(***************************************************************************)
Ok == [ok |-> TRUE, err |-> "none"]
Err(kind) == [ok |-> FALSE, err |-> kind]
\* A result slot no function has written yet.
Unset == [ok |-> FALSE, err |-> "unset"]

\* The error kinds of the callees of main.rs (section 7 of the specification).
HealthNewUnixError == "Connection"
CheckDfdaemonDownloadError == "ServiceUnavailable"
DownloadNewUnixError == "Connection"
ValidationError == "Validation"
OperationError == "Operation"

VARIABLES
    pc,             \* where the invocation is
    args,           \* the parsed command line (struct Args and the variant's parameters)
    daemon,         \* daemon[e]: what is behind socket path e right now
    daemonChanges,  \* how often the daemon changed state so far
    everListening,  \* a daemon was listening at args.endpoint at some time of the invocation
    calls,          \* the daemon-facing calls made so far, in program order
    open,           \* the connections the process holds open
    handler,        \* the handler Command::execute selected, "none" before dispatch
    endpoint,       \* the endpoint argument of get_dfdaemon_download_client
    rpcsLeft,       \* operation RPCs the handler has still to issue
    bootResult,     \* what get_dfdaemon_download_client returned
    handlerResult,  \* what the handler's execute returned
    executeResult,  \* what Command::execute returned
    mainResult,     \* what main returned
    exitCode,       \* the exit status of the process, -1 while it runs
    signalAt        \* where the invocation was when a termination signal arrived, "none" without one

vars == <<pc, args, daemon, daemonChanges, everListening, calls, open, handler,
          endpoint, rpcsLeft, bootResult, handlerResult, executeResult,
          mainResult, exitCode, signalAt>>

Call(op, e, ok) == [op |-> op, endpoint |-> e, ok |-> ok]

(***************************************************************************)
(* The daemon-facing callees, by what the socket and the daemon do.        *)
(***************************************************************************)
\* connect(2) on a Unix socket: fails when nothing listens at the path.
ConnectSucceeds(e) == daemon[e] # "absent"
\* The health RPC for the download service: serving, or else not.
CheckSucceeds(e) == daemon[e] = "serving"

Init ==
    /\ pc = "parse"
    /\ args \in [version : BOOLEAN, command : Commands,
                 replicas : 0..MaxReplicas, pathOk : BOOLEAN, taskIdOk : BOOLEAN,
                 endpoint : Endpoints, rpcs : 1..MaxRpcs]
    \* A variant carries only its own parameters.
    /\ args.command = "Import" => args.taskIdOk
    /\ args.command # "Import" => (args.replicas = 1 /\ args.pathOk)
    /\ daemon \in [Endpoints -> DaemonStates]
    /\ daemonChanges = 0
    /\ everListening = (daemon[args.endpoint] # "absent")
    /\ calls = <<>>
    /\ open = {}
    /\ handler = "none"
    /\ endpoint = 0
    /\ rpcsLeft = 0
    /\ bootResult = Unset
    /\ handlerResult = Unset
    /\ executeResult = Unset
    /\ mainResult = [ok |-> FALSE, source |-> "unset"]
    /\ exitCode = -1
    /\ signalAt = "none"


(***************************************************************************)
(* main: Args::parse().  The --version flag is parsed by                   *)
(* VersionValueParser, which reports the version and ends the process      *)
(* while the arguments are still being parsed.                             *)
(***************************************************************************)
VersionValueParser(version) == IF version THEN "exit" ELSE "continue"

\* A variant of ArgsVersionFlag: the flag is parsed by the default parser of a
\* SetTrue flag, which only stores the value in args.version.
ArgsVersionSetTrue(version) == "continue"

\* struct Args: version is a SetTrue flag with value_parser = VersionValueParser
\* (the built-in version flag is disabled).
ArgsVersionFlag(version) == VersionValueParser(version)

ParseArgs ==
    /\ pc = "parse"
    /\ IF ArgsVersionFlag(args.version) = "exit"
       THEN /\ pc' = "exited"
            /\ exitCode' = 0
       ELSE /\ pc' = "execute"
            /\ exitCode' = exitCode
    /\ UNCHANGED <<signalAt, args, daemon, daemonChanges, everListening, calls, open,
                   handler, endpoint, rpcsLeft, bootResult, handlerResult,
                   executeResult, mainResult>>

(***************************************************************************)
(* Command::execute: the match on self selects the handler.                *)
(***************************************************************************)
\* A variant of Dispatch: the arm of Stat runs the handler of Export.
DispatchStatAsExport(cmd) == IF cmd = "Import" THEN "import" ELSE "export"

Dispatch(cmd) ==
    CASE cmd = "Import" -> "import"
      [] cmd = "Export" -> "export"
      [] cmd = "Stat" -> "stat"

Execute ==
    /\ pc = "execute"
    /\ handler' = Dispatch(args.command)
    /\ pc' = "validate"
    /\ UNCHANGED <<signalAt, args, daemon, daemonChanges, everListening, calls, open,
                   endpoint, rpcsLeft, bootResult, handlerResult,
                   executeResult, mainResult, exitCode>>

(***************************************************************************)
(* The handler of a variant (import, export, stat): it validates its       *)
(* parameters, resolves the endpoint and calls the bootstrap.              *)
(***************************************************************************)
\* The configured socket path is passed through untransformed.
EndpointResolver(path) == path

\* The validation of a variant's parameters: an import needs a source path
\* that exists and is readable and a replica count that is not 0; an export
\* and a stat need a well-formed task identifier.
ValidateArgs(a) ==
    CASE a.command = "Import" -> a.pathOk /\ a.replicas > 0
      [] a.command = "Export" -> a.taskIdOk
      [] a.command = "Stat" -> a.taskIdOk

\* The parameters of the invocation pass the validation of its variant.
InputValid == ValidateArgs(args)

\* A variant of AfterValidate: the outcome of the validation is looked at
\* only after the bootstrap, so the handler connects whatever the input.
AfterValidateConnectingFirst(valid) == "health_connect"

\* The handler after its validation: go on to the bootstrap, or return the
\* validation error.
AfterValidate(valid) == IF valid THEN "health_connect" ELSE "execute_return"

HandlerValidate ==
    /\ pc = "validate"
    /\ pc' = AfterValidate(InputValid)
    /\ IF pc' = "health_connect"
       THEN /\ endpoint' = EndpointResolver(args.endpoint)
            /\ rpcsLeft' = args.rpcs
            /\ handlerResult' = handlerResult
       ELSE /\ handlerResult' = Err(ValidationError)
            /\ UNCHANGED <<endpoint, rpcsLeft>>
    /\ UNCHANGED <<signalAt, args, daemon, daemonChanges, everListening, calls, open,
                   handler, bootResult, executeResult, mainResult, exitCode>>

(***************************************************************************)
(* get_dfdaemon_download_client(endpoint).                                 *)
(***************************************************************************)
\* The argument of HealthClient::new_unix: endpoint.clone().
HealthEndpointArg(ep) == ep

\* A variant of DownloadEndpointArg: the download client is connected to
\* another socket path than the one that was health-checked.
DownloadEndpointArgOther(ep) == (ep % NumEndpoints) + 1

\* The argument of DfdaemonDownloadClient::new_unix: endpoint.
DownloadEndpointArg(ep) == ep

\* Variants of AfterHealthNewUnix: the error of the connection is ignored;
\* the connection is retried until it succeeds; the health RPC is skipped.
AfterHealthNewUnixIgnoringFailure(res) == "health_check"
AfterHealthNewUnixRetrying(res) == IF res.ok THEN "health_check" ELSE "health_connect"
AfterHealthNewUnixSkippingCheck(res) == IF res.ok THEN "download_connect" ELSE "boot_returned"

\* The ? on HealthClient::new_unix(..).await: go on, or return the error.
AfterHealthNewUnix(res) == IF res.ok THEN "health_check" ELSE "boot_returned"

\* A variant of AfterCheck: the result of the health RPC is ignored.
AfterCheckIgnoringFailure(res) == "download_connect"

\* The ? on health_client.check_dfdaemon_download().await.
AfterCheck(res) == IF res.ok THEN "download_connect" ELSE "boot_returned"

\* A variant of DropHealthClient: the health client outlives the function.
DropHealthClientForgotten(conns) == conns

\* health_client is a local of the function: it is dropped when the function
\* returns, on every path that bound it.
DropHealthClient(conns) == conns \ {"health"}

\* let health_client = HealthClient::new_unix(endpoint.clone()).await?;
HealthClient_new_unix ==
    /\ pc = "health_connect"
    /\ LET e == HealthEndpointArg(endpoint)
           res == IF ConnectSucceeds(e) THEN Ok ELSE Err(HealthNewUnixError)
           next == AfterHealthNewUnix(res)
       IN /\ calls' = Append(calls, Call("health_connect", e, res.ok))
          /\ pc' = next
          /\ IF next = "boot_returned"
             THEN /\ bootResult' = res
                  /\ open' = open
             ELSE /\ bootResult' = bootResult
                  /\ open' = IF res.ok THEN open \cup {"health"} ELSE open
    /\ UNCHANGED <<signalAt, args, daemon, daemonChanges, everListening, handler,
                   endpoint, rpcsLeft, handlerResult, executeResult,
                   mainResult, exitCode>>

\* health_client.check_dfdaemon_download().await?;
check_dfdaemon_download ==
    /\ pc = "health_check"
    /\ LET e == HealthEndpointArg(endpoint)
           res == IF CheckSucceeds(e) THEN Ok ELSE Err(CheckDfdaemonDownloadError)
           next == AfterCheck(res)
       IN /\ calls' = Append(calls, Call("health_check", e, res.ok))
          /\ pc' = next
          /\ IF next = "boot_returned"
             THEN /\ bootResult' = res
                  /\ open' = DropHealthClient(open)
             ELSE /\ bootResult' = bootResult
                  /\ open' = open
    /\ UNCHANGED <<signalAt, args, daemon, daemonChanges, everListening, handler,
                   endpoint, rpcsLeft, handlerResult, executeResult,
                   mainResult, exitCode>>

\* let dfdaemon_download_client = DfdaemonDownloadClient::new_unix(endpoint).await?;
\* Ok(dfdaemon_download_client)
DfdaemonDownloadClient_new_unix ==
    /\ pc = "download_connect"
    /\ LET e == DownloadEndpointArg(endpoint)
           res == IF ConnectSucceeds(e) THEN Ok ELSE Err(DownloadNewUnixError)
       IN /\ calls' = Append(calls, Call("download_connect", e, res.ok))
          /\ bootResult' = res
          /\ open' = DropHealthClient(IF res.ok THEN open \cup {"download"} ELSE open)
          /\ pc' = "boot_returned"
    /\ UNCHANGED <<signalAt, args, daemon, daemonChanges, everListening, handler,
                   endpoint, rpcsLeft, handlerResult, executeResult,
                   mainResult, exitCode>>


(***************************************************************************)
(* The handler after the bootstrap: an error of the bootstrap is returned  *)
(* as it is; with a client the handler issues its RPCs through it, one     *)
(* after the other, and stops at the first that fails.  The client is      *)
(* dropped when the handler returns.                                       *)
(***************************************************************************)
\* The endpoint the returned client is connected to.
ClientEndpoint ==
    LET i == CHOOSE j \in 1..Len(calls) :
                 /\ calls[j].op = "download_connect"
                 /\ \A k \in (j + 1)..Len(calls) : calls[k].op # "download_connect"
    IN calls[i].endpoint

DropDownloadClient(conns) == conns \ {"download"}

HandlerAfterBoot ==
    /\ pc = "boot_returned"
    /\ IF bootResult.ok
       THEN /\ pc' = "rpc"
            /\ handlerResult' = handlerResult
       ELSE /\ pc' = "execute_return"
            /\ handlerResult' = bootResult
    /\ UNCHANGED <<signalAt, args, daemon, daemonChanges, everListening, calls, open,
                   handler, endpoint, rpcsLeft, bootResult, executeResult,
                   mainResult, exitCode>>

HandlerRpc ==
    /\ pc = "rpc"
    /\ \E accepted \in BOOLEAN :
         LET e == ClientEndpoint
             res == IF daemon[e] = "serving" /\ accepted
                    THEN Ok ELSE Err(OperationError)
         IN /\ calls' = Append(calls, Call("rpc", e, res.ok))
            /\ IF res.ok /\ rpcsLeft > 1
               THEN /\ rpcsLeft' = rpcsLeft - 1
                    /\ UNCHANGED <<pc, handlerResult, open>>
               ELSE /\ rpcsLeft' = 0
                    /\ handlerResult' = res
                    /\ open' = DropDownloadClient(open)
                    /\ pc' = "execute_return"
    /\ UNCHANGED <<signalAt, args, daemon, daemonChanges, everListening, handler,
                   endpoint, bootResult, executeResult, mainResult, exitCode>>

(***************************************************************************)
(* Command::execute returns the value of the selected arm of the match.    *)
(***************************************************************************)
\* A variant of ExecuteResult: the result of the handler is discarded.
ExecuteResultSwallowed(res) == Ok

ExecuteResult(res) == res

ExecuteReturn ==
    /\ pc = "execute_return"
    /\ executeResult' = ExecuteResult(handlerResult)
    /\ pc' = "main_return"
    /\ UNCHANGED <<signalAt, args, daemon, daemonChanges, everListening, calls, open,
                   handler, endpoint, rpcsLeft, bootResult, handlerResult,
                   mainResult, exitCode>>

(***************************************************************************)
(* main: args.command.execute().await?; Ok(()).  The ? converts the error  *)
(* into an anyhow::Error that holds it as its source; the runtime turns    *)
(* the value main returns into the exit status.                            *)
(***************************************************************************)
\* A variant of MainResult: the result of execute is discarded (no ?).
MainResultAlwaysOk(res) == [ok |-> TRUE, source |-> "none"]

MainResult(res) ==
    IF res.ok THEN [ok |-> TRUE, source |-> "none"]
              ELSE [ok |-> FALSE, source |-> res.err]

ExitStatus(res) == IF res.ok THEN 0 ELSE 1

\* A variant of MainAfterExecute: main runs the command in a loop.
MainRunsCommandAgain == "execute"

\* main after execute has returned: it returns, and the process exits.
MainAfterExecute == "exited"

MainReturn ==
    /\ pc = "main_return"
    /\ mainResult' = MainResult(executeResult)
    /\ exitCode' = ExitStatus(MainResult(executeResult))
    /\ pc' = MainAfterExecute
    /\ UNCHANGED <<signalAt, args, daemon, daemonChanges, everListening, calls, open,
                   handler, endpoint, rpcsLeft, bootResult, handlerResult,
                   executeResult>>

(***************************************************************************)
(* The environment: the daemon behind a socket path starts, becomes ready, *)
(* stops serving or goes away while the invocation runs.                   *)
(***************************************************************************)
DaemonChange ==
    /\ pc \notin {"exited", "killed"}
    /\ daemonChanges < MaxDaemonChanges
    /\ \E e \in Endpoints, s \in DaemonStates :
         /\ s # daemon[e]
         /\ daemon' = [daemon EXCEPT ![e] = s]
         /\ everListening' = (everListening \/ (e = args.endpoint /\ s # "absent"))
    /\ daemonChanges' = daemonChanges + 1
    /\ UNCHANGED <<signalAt, pc, args, calls, open, handler, endpoint, rpcsLeft,
                   bootResult, handlerResult, executeResult, mainResult,
                   exitCode>>

(***************************************************************************)
(* The environment: a termination signal.  main installs no signal handler, *)
(* so the default disposition applies: the process is terminated where it  *)
(* is, without an exit status of its own, and the system closes whatever   *)
(* it held open.                                                           *)
(***************************************************************************)
\* A variant of SignalDisposition: the signal is caught and ignored.
SignalDispositionIgnored == "ignore"

SignalDisposition == "terminate"

TerminationSignal ==
    /\ pc \notin {"exited", "killed"}
    /\ signalAt = "none"
    /\ signalAt' = pc
    /\ IF SignalDisposition = "terminate"
       THEN /\ pc' = "killed"
            /\ open' = {}
       ELSE UNCHANGED <<pc, open>>
    /\ UNCHANGED <<args, daemon, daemonChanges, everListening, calls, handler,
                   endpoint, rpcsLeft, bootResult, handlerResult,
                   executeResult, mainResult, exitCode>>

Next ==
    \/ ParseArgs
    \/ Execute
    \/ HandlerValidate
    \/ HealthClient_new_unix
    \/ check_dfdaemon_download
    \/ DfdaemonDownloadClient_new_unix
    \/ HandlerAfterBoot
    \/ HandlerRpc
    \/ ExecuteReturn
    \/ MainReturn
    \/ DaemonChange
    \/ TerminationSignal

Spec == Init /\ [][Next]_vars

\* The steps of the program itself.
Program ==
    \/ ParseArgs
    \/ Execute
    \/ HandlerValidate
    \/ HealthClient_new_unix
    \/ check_dfdaemon_download
    \/ DfdaemonDownloadClient_new_unix
    \/ HandlerAfterBoot
    \/ HandlerRpc
    \/ ExecuteReturn
    \/ MainReturn

\* The runtime drives main's future whenever it can make progress, and every
\* daemon-facing call eventually returns: the program's next step is
\* eventually taken.  Nothing is assumed of the daemon or of signals.
FairSpec == Spec /\ WF_vars(Program)

TypeOK ==
    /\ pc \in {"parse", "execute", "validate", "health_connect", "health_check",
               "download_connect", "boot_returned", "rpc", "execute_return",
               "main_return", "exited", "killed"}
    /\ open \subseteq {"health", "download"}
    /\ Len(calls) <= 3 + MaxRpcs
    /\ exitCode \in {-1, 0, 1}


(***************************************************************************)
(* Properties.                                                             *)
(***************************************************************************)
Idx == 1..Len(calls)

\* The calls of the bootstrap, in the order they were made.
IsBootCall(c) == c.op # "rpc"
BootCalls == SelectSeq(calls, IsBootCall)

Made(op) == \E i \in Idx : calls[i].op = op
Failed(op) == \E i \in Idx : calls[i].op = op /\ ~calls[i].ok
Succeeded(op) == \E i \in Idx : calls[i].op = op /\ calls[i].ok

\* C1: no operation RPC of the download service is issued unless a health
\* check against the same endpoint succeeded earlier in the invocation, for
\* each of the three variants; after a failed health check no operation RPC
\* is issued at all.
C1_NoRpcWithoutHealthSuccess ==
    /\ \A i \in Idx :
         calls[i].op = "rpc" =>
           \E j \in 1..(i - 1) :
              /\ calls[j].op = "health_check"
              /\ calls[j].ok
              /\ calls[j].endpoint = calls[i].endpoint
    /\ Failed("health_check") => ~Made("rpc")

\* The invocation of an import ended after its health check failed.
C1_Witness ==
    /\ pc = "exited"
    /\ handler = "import"
    /\ Failed("health_check")

\* The same for the other two variants, and an RPC issued after a health check
\* that succeeded.
C1_WitnessExport == pc = "exited" /\ handler = "export" /\ Failed("health_check")
C1_WitnessStat == pc = "exited" /\ handler = "stat" /\ Failed("health_check")
C1_WitnessRpc == Made("rpc") /\ Succeeded("health_check")

\* C2: when opening the health-check connection fails, the bootstrap has
\* returned a connection error and neither the health RPC nor the
\* download-client connection is ever attempted.
C2_HealthConnectFailureAborts ==
    Failed("health_connect") =>
        /\ bootResult = Err("Connection")
        /\ ~Made("health_check")
        /\ ~Made("download_connect")

\* The health-check connection failed and the invocation has ended.
C2_Witness == pc = "exited" /\ Failed("health_connect")

\* C3: when the health RPC reports not-serving or errors, the bootstrap has
\* returned a service-unavailable error and the download-client connection
\* is never opened.
C3_HealthCheckFailureAborts ==
    Failed("health_check") =>
        /\ bootResult = Err("ServiceUnavailable")
        /\ ~Made("download_connect")
        /\ "download" \notin open

\* The health RPC failed on a daemon that is listening but not serving, and
\* the invocation has ended.
C3_Witness ==
    /\ pc = "exited"
    /\ Failed("health_check")
    /\ daemon[endpoint] = "not_ready"

\* The health RPC itself failed because the daemon went away after the
\* health-check connection was opened.
C3_WitnessCallErrors ==
    /\ Failed("health_check")
    /\ Succeeded("health_connect")
    /\ daemon[endpoint] = "absent"


C5_SameEndpoint ==
    /\ \A i \in Idx : IsBootCall(calls[i]) => calls[i].endpoint = endpoint
    /\ \A i, j \in Idx :
         IsBootCall(calls[i]) /\ IsBootCall(calls[j]) =>
            calls[i].endpoint = calls[j].endpoint

\* The bootstrap has opened the download-client connection.
C5_Witness == Succeeded("health_check") /\ Made("download_connect")

\* C6: in one call of the bootstrap the steps occur in the order
\* health-connect, health-check RPC, download-connect, each at most once:
\* no failed step is retried and none is reordered.
BootOrder == <<"health_connect", "health_check", "download_connect">>

C6_FixedOrderNoRetry ==
    /\ Len(BootCalls) <= Len(BootOrder)
    /\ \A i \in 1..Len(BootCalls) : BootCalls[i].op = BootOrder[i]
    /\ \A i \in Idx : calls[i].op = "rpc" => \A j \in (i + 1)..Len(calls) : calls[j].op = "rpc"

\* All three steps were made, the last one failed, and the invocation ended
\* without another attempt.
C6_Witness ==
    /\ pc = "exited"
    /\ Len(BootCalls) = Len(BootOrder)
    /\ Failed("download_connect")

\* A first step that failed and was not tried again.
C6_WitnessFirstFails == pc = "exited" /\ Failed("health_connect")

\* C7: every error of the bootstrap or of a handler reaches the entry point
\* unchanged: Command::execute returns exactly the result of the selected
\* handler, and main fails with that same error, never a success and never
\* an error of another category.
C7_ErrorsPropagateUnchanged ==
    /\ (pc \in {"main_return", "exited"} /\ handler # "none") =>
          executeResult = handlerResult
    /\ (pc = "exited" /\ handler # "none") =>
          mainResult = [ok |-> handlerResult.ok, source |-> handlerResult.err]
    /\ (pc = "exited" /\ bootResult # Unset /\ ~bootResult.ok) =>
          mainResult = [ok |-> FALSE, source |-> bootResult.err]

\* An error of the bootstrap has reached the entry point.
C7_Witness ==
    /\ pc = "exited"
    /\ bootResult = Err("ServiceUnavailable")
    /\ ~mainResult.ok

\* An error of an operation RPC has reached the entry point.
C7_WitnessOperation ==
    /\ pc = "exited"
    /\ handlerResult = Err("Operation")
    /\ ~mainResult.ok


\* The exit status is ok exactly when the selected command's execute
\* returned success, and an error status exactly when it returned failure.
ExitReflectsExecute ==
    (pc = "exited" /\ handler # "none") =>
        /\ exitCode \in {0, 1}
        /\ (exitCode = 0) <=> executeResult.ok
        /\ (exitCode # 0) <=> (executeResult # Unset /\ ~executeResult.ok)

\* C8 as stated: the exit status is ok if and only if the selected command's
\* execute returned success and an error if and only if it returned failure;
\* with no daemon listening at the socket path, every one of the three
\* subcommands ends with a Connection error and a non-zero exit status.
C8_Original ==
    /\ ExitReflectsExecute
    /\ (pc = "exited" /\ handler # "none" /\ ~everListening) =>
          /\ mainResult = [ok |-> FALSE, source |-> "Connection"]
          /\ exitCode # 0

\* C8 (amended): the exit status is ok if and only if the selected command's
\* execute returned success and an error if and only if it returned failure;
\* with no daemon listening at the socket path and parameters that pass the
\* handler's validation, every one of the three subcommands ends with a
\* Connection error and a non-zero exit status.
C8_ExitStatusReflectsExecute ==
    /\ ExitReflectsExecute
    /\ (pc = "exited" /\ handler # "none" /\ InputValid /\ ~everListening) =>
          /\ mainResult = [ok |-> FALSE, source |-> "Connection"]
          /\ exitCode # 0

\* An export with valid parameters ended while no daemon was ever listening.
C8_Witness ==
    /\ pc = "exited"
    /\ handler = "export"
    /\ InputValid
    /\ ~everListening
    /\ exitCode = 1

\* An invocation that ended with the exit status ok after execute succeeded.
C8_WitnessOk == pc = "exited" /\ handler # "none" /\ exitCode = 0

\* C9: with the top-level --version flag, subcommand dispatch is bypassed:
\* Command::execute is never called, no handler runs and no connection to
\* the daemon is opened.
C9_VersionBypassesDispatch ==
    args.version =>
        /\ pc \in {"parse", "exited", "killed"}
        /\ handler = "none"
        /\ executeResult = Unset
        /\ calls = <<>>
        /\ open = {}

\* An invocation with --version has ended.
C9_Witness == args.version /\ pc = "exited" /\ exitCode = 0

\* C10: every connection opened during the invocation is released by the
\* time the invocation ends, whatever the outcome.
C10_ConnectionsReleased == pc \in {"exited", "killed"} => open = {}

\* Both connections were opened, and the invocation has ended.
C10_Witness ==
    /\ pc = "exited"
    /\ Succeeded("health_connect")
    /\ Succeeded("download_connect")

\* The health-check connection was opened, the bootstrap failed, and the
\* invocation has ended.
C10_WitnessBootFailure == pc = "exited" /\ Succeeded("health_connect") /\ ~bootResult.ok


\* C11: when the parameters of a command are invalid (an import with replica
\* count 0 or a malformed or missing source path, an export or a stat with a
\* malformed task identifier), no connection to the daemon is ever attempted
\* and the invocation, once its command is dispatched, ends with a
\* validation error.
C11_ValidationPrecedesBootstrap ==
    ~InputValid =>
        /\ calls = <<>>
        /\ open = {}
        /\ bootResult = Unset
        /\ pc \in {"execute_return", "main_return", "exited"} /\ handler # "none" =>
              handlerResult = Err("Validation")
        /\ pc = "exited" /\ handler # "none" =>
              /\ mainResult = [ok |-> FALSE, source |-> "Validation"]
              /\ exitCode # 0

\* An import with replica count 0 has ended.
C11_Witness ==
    /\ pc = "exited"
    /\ handler = "import"
    /\ args.replicas = 0
    /\ args.pathOk

\* An import with a bad source path, and a stat and an export with a malformed
\* task identifier, have ended.
C11_WitnessPath == pc = "exited" /\ handler = "import" /\ ~args.pathOk /\ args.replicas > 0
C11_WitnessStat == pc = "exited" /\ handler = "stat" /\ ~args.taskIdOk
C11_WitnessExport == pc = "exited" /\ handler = "export" /\ ~args.taskIdOk


\* The places of an invocation at which the bootstrap has not yet returned.
BeforeBootstrapCompletes ==
    {"parse", "execute", "validate", "health_connect", "health_check",
     "download_connect"}

\* C12: when a termination signal arrives before the bootstrap has
\* completed, the connection attempts in flight are abandoned (the process
\* is gone and holds no connection) and no operation RPC is ever issued
\* afterwards in that invocation.
C12_SignalBeforeBootstrapStopsAll ==
    signalAt \in BeforeBootstrapCompletes =>
        /\ pc = "killed"
        /\ bootResult = Unset
        /\ ~Made("rpc")
        /\ open = {}

\* The signal arrived while the download-client connection was being opened.
C12_Witness ==
    /\ signalAt = "download_connect"
    /\ pc = "killed"
    /\ Succeeded("health_check")

\* The signal arrived while the health-check connection was being opened.
C12_WitnessFirstStep == signalAt = "health_connect" /\ pc = "killed"


\* The invocation is over: the process has exited or was terminated.
Terminated == pc \in {"exited", "killed"}

\* C13: an invocation runs exactly one command: once a handler is selected
\* no other handler is selected and none is started again, the process exits
\* only after that handler has returned (with success or with an error), and,
\* provided every daemon-facing call eventually returns, the invocation
\* eventually terminates.
C13_OneCommandToCompletion ==
    /\ [][handler # "none" =>
            /\ handler' = handler
            /\ pc' = "validate" => pc = "validate"]_vars
    /\ [](pc = "exited" /\ handler # "none" =>
            /\ handlerResult # Unset
            /\ executeResult = handlerResult)
    /\ <>Terminated

\* A stat ran to completion with success and the process has exited.
C13_Witness ==
    /\ pc = "exited"
    /\ handler = "stat"
    /\ handlerResult = Ok
    /\ exitCode = 0


\* C14: Command::execute invokes the handler of exactly the variant it was
\* given (Import: import, Export: export, Stat: stat) and never another one;
\* no variant is left without a handler.
C14_DispatchByVariant ==
    /\ handler # "none" =>
          \/ args.command = "Import" /\ handler = "import"
          \/ args.command = "Export" /\ handler = "export"
          \/ args.command = "Stat" /\ handler = "stat"
    /\ pc \in {"validate", "health_connect", "health_check", "download_connect",
               "boot_returned", "rpc", "execute_return", "main_return"} =>
          handler \in {"import", "export", "stat"}

\* The handler of a stat has run and returned.
C14_Witness ==
    /\ args.command = "Stat"
    /\ handler = "stat"
    /\ pc = "main_return"

\* The handlers of the other two variants have run and returned.
C14_WitnessImport == args.command = "Import" /\ handler = "import" /\ pc = "main_return"
C14_WitnessExport == args.command = "Export" /\ handler = "export" /\ pc = "main_return"

\* The error each step of the bootstrap fails with.
StepError(op) ==
    CASE op = "health_connect" -> "Connection"
      [] op = "health_check" -> "ServiceUnavailable"
      [] op = "download_connect" -> "Connection"

\* C15: the bootstrap returns a client if and only if the health connection,
\* the health check and the download-client connection all succeeded;
\* otherwise it returns the error of the first step that failed, and no step
\* after that one was executed.
C15_ClientIffAllStepsSucceed ==
    bootResult # Unset =>
        /\ bootResult.ok <=>
              /\ Succeeded("health_connect")
              /\ Succeeded("health_check")
              /\ Succeeded("download_connect")
        /\ (bootResult.ok /\ pc = "boot_returned") => "download" \in open
        /\ ~bootResult.ok =>
              LET n == Len(BootCalls)
              IN /\ n >= 1
                 /\ ~BootCalls[n].ok
                 /\ \A i \in 1..(n - 1) : BootCalls[i].ok
                 /\ bootResult = Err(StepError(BootCalls[n].op))

\* The bootstrap has returned the error of its second step.
C15_Witness ==
    /\ pc = "boot_returned"
    /\ bootResult = Err("ServiceUnavailable")
    /\ Len(BootCalls) = 2

\* The bootstrap has returned a client, and it has returned the errors of
\* its first and of its third step.
C15_WitnessClient == pc = "boot_returned" /\ bootResult = Ok
C15_WitnessFirst == pc = "boot_returned" /\ ~bootResult.ok /\ Len(BootCalls) = 1
C15_WitnessThird == pc = "boot_returned" /\ ~bootResult.ok /\ Len(BootCalls) = 3

\* C16: once the bootstrap has returned, the health-check connection it
\* opened is no longer held, on any path; after a failure no connection is
\* open at all, after a success the only open connection is the returned
\* download client.  While the download-client connection is being opened
\* the health connection is still held.
C16_HealthClientScopedToBootstrap ==
    /\ bootResult # Unset => "health" \notin open
    /\ (bootResult # Unset /\ ~bootResult.ok) => open = {}
    /\ (bootResult.ok /\ pc = "boot_returned") => open = {"download"}
    /\ bootResult.ok => open \subseteq {"download"}
    /\ pc = "download_connect" => "health" \in open

\* The bootstrap has returned a client after opening both connections.
C16_Witness ==
    /\ pc = "boot_returned"
    /\ bootResult.ok
    /\ Succeeded("health_connect")
    /\ open = {"download"}

\* The download-client connection is being opened; the bootstrap has failed
\* after the health connection was opened.
C16_WitnessDuring == pc = "download_connect" /\ open = {"health"}
C16_WitnessFailure == pc = "boot_returned" /\ ~bootResult.ok /\ Succeeded("health_connect")

====
